---- MODULE Spec2Model ----
(***************************************************************************)
(* ResuMaster AI (src/App.tsx, src/services/geminiService.ts).             *)
(*                                                                         *)
(* Two parts are modelled:                                                 *)
(*   - the PDF layout pass of handleDownloadPDF (line classifier, inline   *)
(*     span splitter, word wrap, pagination, placement);                   *)
(*   - the UI state of App with its asynchronous handlers                  *)
(*     (handleFileUpload, handleOptimize, toggleView, handleDownloadPDF).  *)
(*                                                                         *)
(* Texts are sequences of one-character strings.  Lengths are in           *)
(* hundredths of a PDF point, so that 595.28, 841.89, 8.8 and the like are *)
(* integers and the arithmetic of the source is exact.                     *)
(***************************************************************************)
EXTENDS Integers, Sequences, FiniteSets, TLC

VARIABLES
  \* ---- App state (App.tsx:39-48)
  step,          \* 1 = edit mode, 2 = preview mode
  loading,       \* an optimization is running
  downloading,   \* an export is running
  error,         \* NoError or the message shown
  inputContent,  \* the editor text
  targetTitle,   \* the target job title
  result,        \* NULL or the OptimizationResult
  \* ---- asynchronous calls in flight
  uploads,       \* the files whose handleFileUpload awaits its decoder
  optimizing,    \* handleOptimize awaits geminiService.optimizeResume
  exporting,     \* handleDownloadPDF is between its start and its finally
  \* ---- the layout pass of handleDownloadPDF (App.tsx:135-265)
  i,             \* the index of the next line of the loop
  lineCur,       \* lines[i-1] as split, untrimmed
  linePrev,      \* lines[i-2] as split, untrimmed
  page,          \* the number of pages allocated; drawing goes to the last
  currentY,      \* the vertical cursor
  placed,        \* the lines lines[i-1] placed, in order
  rules          \* the rules lines[i-1] drew

uiVars == <<step, loading, downloading, error, inputContent, targetTitle, result,
            uploads, optimizing, exporting>>
layoutVars == <<i, lineCur, linePrev, page, currentY, placed, rules>>
vars == <<uiVars, layoutVars>>

(***************************************************************************)
(* Page geometry (App.tsx:135-138), in 1/100 pt.                           *)
(***************************************************************************)
PageWidth == 59528
PageHeight == 84189
margin == 5000

\* margin + 20 (App.tsx:170, 241): the pagination threshold
BreakThreshold == margin + 2000

\* margin + 15 (App.tsx:217)
bulletMargin == margin + 1500

(***************************************************************************)
(* String primitives of JavaScript used by the layout pass.                *)
(***************************************************************************)
IsSpace(c) == c = " "

RECURSIVE TrimStart(_)
TrimStart(s) ==
  IF s = << >> THEN << >>
  ELSE IF IsSpace(Head(s)) THEN TrimStart(Tail(s)) ELSE s

RECURSIVE TrimEnd(_)
TrimEnd(s) ==
  IF s = << >> THEN << >>
  ELSE IF IsSpace(s[Len(s)]) THEN TrimEnd(SubSeq(s, 1, Len(s) - 1)) ELSE s

\* String.prototype.trim
Trim(s) == TrimEnd(TrimStart(s))

\* String.prototype.startsWith
StartsWith(s, p) == Len(s) >= Len(p) /\ SubSeq(s, 1, Len(p)) = p

\* String.prototype.endsWith
EndsWith(s, p) == Len(s) >= Len(p) /\ SubSeq(s, Len(s) - Len(p) + 1, Len(s)) = p

\* first index >= from at which p occurs in s, 0 when there is none
RECURSIVE IndexOfFrom(_, _, _)
IndexOfFrom(s, p, from) ==
  IF from + Len(p) - 1 > Len(s) THEN 0
  ELSE IF SubSeq(s, from, from + Len(p) - 1) = p THEN from
  ELSE IndexOfFrom(s, p, from + 1)

\* MUTANT of ReplaceFirst: every occurrence of p is removed
RECURSIVE ReplaceEvery(_, _)
ReplaceEvery(s, p) ==
  LET k == IndexOfFrom(s, p, 1)
  IN IF k = 0 THEN s
     ELSE SubSeq(s, 1, k - 1) \o ReplaceEvery(SubSeq(s, k + Len(p), Len(s)), p)

\* s.replace(p, ''): the first occurrence of p is removed
ReplaceFirst(s, p) ==
  LET k == IndexOfFrom(s, p, 1)
  IN IF k = 0 THEN s
     ELSE SubSeq(s, 1, k - 1) \o SubSeq(s, k + Len(p), Len(s))

\* s.substring(2)
Substring2(s) == SubSeq(s, 3, Len(s))

\* s.slice(2, -2)
Slice2(s) == SubSeq(s, 3, Len(s) - 2)

StarStar == <<"*", "*">>

(***************************************************************************)
(* The split of a text on its bold spans, with the empty pieces filtered   *)
(* out (App.tsx:148, 220).  The regular expression of the source matches,  *)
(* leftmost first: two stars, the fewest characters, two stars.            *)
(* split with a capture group returns the pieces between the matches and   *)
(* the matches themselves, in order; the filter drops the empty pieces.    *)
(* Each segment is returned with a flag telling whether the regex matched. *)
(***************************************************************************)
RECURSIVE SplitFrom(_, _)
SplitFrom(s, from) ==
  LET p == IndexOfFrom(s, StarStar, from)
      q == IF p = 0 THEN 0 ELSE IndexOfFrom(s, StarStar, p + 2)
  IN IF from > Len(s) THEN << >>
     ELSE IF q = 0
       THEN << [seg |-> SubSeq(s, from, Len(s)), matched |-> FALSE] >>
       ELSE (IF p > from
               THEN << [seg |-> SubSeq(s, from, p - 1), matched |-> FALSE] >>
               ELSE << >>)
            \o << [seg |-> SubSeq(s, p, q + 1), matched |-> TRUE] >>
            \o SplitFrom(s, q + 2)

SplitSegments(text) == SplitFrom(text, 1)

\* const isBold = seg.startsWith('**') && seg.endsWith('**')   (App.tsx:153,225)
IsBoldSeg(seg) == StartsWith(seg, StarStar) /\ EndsWith(seg, StarStar)

\* const cleanText = isBold ? seg.slice(2, -2) : seg           (App.tsx:154,226)
CleanText(seg) == IF IsBoldSeg(seg) THEN Slice2(seg) ELSE seg

(***************************************************************************)
(* The split of cleanText on whitespace runs, the runs kept (App.tsx:156,  *)
(* 228): the words and the                                                 *)
(* whitespace runs between them, each a token; a text that begins or ends  *)
(* with whitespace yields an empty first or last token, and the empty      *)
(* text yields one empty token.                                            *)
(***************************************************************************)
RECURSIVE TakeRun(_, _)
TakeRun(s, space) ==
  IF s = << >> \/ IsSpace(Head(s)) # space THEN << >>
  ELSE <<Head(s)>> \o TakeRun(Tail(s), space)

RECURSIVE SplitWordsFrom(_, _)
\* expectWord: the next token is a word (possibly empty), else a whitespace run
SplitWordsFrom(s, expectWord) ==
  IF expectWord
    THEN LET w == TakeRun(s, FALSE)
             rest == SubSeq(s, Len(w) + 1, Len(s))
         IN IF rest = << >> THEN <<w>>
            ELSE <<w>> \o SplitWordsFrom(rest, FALSE)
    ELSE LET w == TakeRun(s, TRUE)
             rest == SubSeq(s, Len(w) + 1, Len(s))
         IN <<w>> \o SplitWordsFrom(rest, TRUE)

SplitWords(s) == SplitWordsFrom(s, TRUE)

\* word.trim() !== ''
IsNonBlank(w) == Trim(w) # << >>

(***************************************************************************)
(* font.widthOfTextAtSize(word, size) of pdf-lib (App.tsx:159, 231, 236):  *)
(* the sum of the advance widths of the glyphs, times the size.  The font  *)
(* metrics are the library's; GlyphUnits gives the advance of each glyph   *)
(* of the model's alphabet in 1/100 pt per point of size.  "W" stands for  *)
(* a long unbreakable word, so that short texts wrap.                      *)
(***************************************************************************)
GlyphUnits(c, bold) ==
  CASE c = " " -> 28
    [] c = "*" -> 38
    [] c = "#" -> 56
    [] c = "-" -> 34
    [] c = "a" -> IF bold THEN 62 ELSE 56
    [] c = "W" -> IF bold THEN 2600 ELSE 2460
    [] OTHER -> 56

RECURSIVE SumUnits(_, _)
SumUnits(word, bold) ==
  IF word = << >> THEN 0
  ELSE GlyphUnits(Head(word), bold) + SumUnits(Tail(word), bold)

widthOfTextAtSize(word, bold, size) == SumUnits(word, bold) * size

(***************************************************************************)
(* The tokens of a text, in order (App.tsx:152-159, 224-231): for each     *)
(* segment its words, each tagged with the segment's isBold and measured   *)
(* in the segment's font (fontBold for a bold segment, else the default    *)
(* font of the block).                                                     *)
(***************************************************************************)
RECURSIVE WordTokens(_, _, _, _)
WordTokens(words, isBold, fontIsBold, size) ==
  IF words = << >> THEN << >>
  ELSE << [text |-> Head(words), isBold |-> isBold, fontBold |-> fontIsBold,
           width |-> widthOfTextAtSize(Head(words), fontIsBold, size)] >>
       \o WordTokens(Tail(words), isBold, fontIsBold, size)

RECURSIVE SegTokens(_, _, _)
SegTokens(segs, defaultBold, size) ==
  IF segs = << >> THEN << >>
  ELSE LET seg == Head(segs).seg
           isBold == IsBoldSeg(seg)
       IN WordTokens(SplitWords(CleanText(seg)), isBold,
                     IF isBold THEN TRUE ELSE defaultBold, size)
          \o SegTokens(Tail(segs), defaultBold, size)

Tokens(text, defaultBold, size) == SegTokens(SplitSegments(text), defaultBold, size)

(***************************************************************************)
(* The wrap loop of drawRichText (App.tsx:149-167).  lines starts as [[]]; *)
(* a token that would overflow and is not blank opens a new line.          *)
(***************************************************************************)
\* MUTANT of Overflows: the width of the word is left out of the test
OverflowsIgnoringWord(currentLineWidth, tok, maxWidth) ==
  currentLineWidth > maxWidth /\ IsNonBlank(tok.text)

\* MUTANT of Overflows: a blank token opens a line as a word does
OverflowsAnyToken(currentLineWidth, tok, maxWidth) ==
  currentLineWidth + tok.width > maxWidth

\* if (currentLineWidth + wordWidth > maxWidth && word.trim() !== '')
Overflows(currentLineWidth, tok, maxWidth) ==
  currentLineWidth + tok.width > maxWidth /\ IsNonBlank(tok.text)

\* TLC passes operator arguments unevaluated; Forced(v) in a guard makes it
\* evaluate an accumulated argument at every turn of a loop, which keeps the
\* depth of the evaluation of a long loop within the stack
Forced(v) == v = v

RECURSIVE WrapFrom(_, _, _, _)
WrapFrom(toks, lines, currentLineWidth, maxWidth) ==
  IF Forced(lines) /\ toks = << >> THEN lines
  ELSE IF Overflows(currentLineWidth, Head(toks), maxWidth)
    THEN WrapFrom(Tail(toks), Append(lines, << Head(toks) >>),
                  Head(toks).width, maxWidth)
    ELSE WrapFrom(Tail(toks), [lines EXCEPT ![Len(lines)] = Append(@, Head(toks))],
                  currentLineWidth + Head(toks).width, maxWidth)

WrapLines(toks, maxWidth) == WrapFrom(toks, << << >> >>, 0, maxWidth)

RECURSIVE LineWidth(_)
\* lineSegments.reduce((acc, seg) => acc + seg.width, 0)
LineWidth(toks) ==
  IF toks = << >> THEN 0 ELSE Head(toks).width + LineWidth(Tail(toks))

(***************************************************************************)
(* The placement loop of drawRichText (App.tsx:169-186).  A layout cursor  *)
(* is [page, y]; the result is the cursor after the block and the lines    *)
(* placed, each with its page, baseline, start x and tokens.  size is in   *)
(* points: size * 1.5 is size * 150 and size * 0.4 is size * 40.           *)
(***************************************************************************)
\* MUTANT of NeedsBreak: the cursor is tested against the margin alone
NeedsBreakAtMargin(y) == y < margin

\* if (currentY < margin + 20) { page = addPage(); currentY = height - margin }
NeedsBreak(y) == y < BreakThreshold

\* MUTANT of StartX: every line starts at the margin
StartXLeft(align, fullLineWidth) == margin

\* let startX = margin; if (align === 'center') startX = (width - fullLineWidth) / 2
StartX(align, fullLineWidth) ==
  IF align = "center" THEN (PageWidth - fullLineWidth) \div 2 ELSE margin

\* MUTANT of PlacedLine: every line is drawn on the first page
PlacedLineOnFirstPage(lineToks, pg, y, size, color, align, kind) ==
  [page |-> 1, y |-> y, x |-> StartX(align, LineWidth(lineToks)),
   toks |-> lineToks, size |-> size, color |-> color,
   align |-> align, kind |-> kind]

\* one wrapped line drawn at the cursor (App.tsx:174-184)
PlacedLine(lineToks, pg, y, size, color, align, kind) ==
  [page |-> pg, y |-> y, x |-> StartX(align, LineWidth(lineToks)),
   toks |-> lineToks, size |-> size, color |-> color,
   align |-> align, kind |-> kind]

\* lines.forEach(...): done holds the lines drawn so far, the next line is
\* lines[Len(done) + 1]
RECURSIVE PlaceLoop(_, _, _, _, _, _, _, _)
PlaceLoop(lines, pg, y, size, color, align, kind, done) ==
  IF Len(done) = Len(lines) THEN [page |-> pg, y |-> y, placed |-> done]
  ELSE IF NeedsBreak(y)
    THEN PlaceLoop(lines, pg + 1, PageHeight - margin - size * 150,
                   size, color, align, kind,
                   Append(done, PlacedLine(lines[Len(done) + 1], pg + 1,
                                           PageHeight - margin,
                                           size, color, align, kind)))
    ELSE PlaceLoop(lines, pg, y - size * 150, size, color, align, kind,
                   Append(done, PlacedLine(lines[Len(done) + 1], pg, y,
                                           size, color, align, kind)))

PlaceFrom(lines, pg, y, size, color, align, kind) ==
  PlaceLoop(lines, pg, y, size, color, align, kind, << >>)

\* const maxWidth = width - (margin * 2)   (App.tsx:145)
RichMaxWidth == PageWidth - (margin * 2)

\* drawRichText(text, {size, defaultFont, color, align})
drawRichText(text, pg, y, size, defaultBold, color, align, kind) ==
  LET lines == WrapLines(Tokens(text, defaultBold, size), RichMaxWidth)
      r == PlaceFrom(lines, pg, y, size, color, align, kind)
  IN [page |-> r.page, y |-> r.y - size * 40, placed |-> r.placed]

(***************************************************************************)
(* The bullet branch (App.tsx:213-255).  The glyph is drawn at the cursor, *)
(* then the wrap loop draws each full line as it closes it and checks the  *)
(* page only after closing a line; the last line is drawn after the loop. *)
(***************************************************************************)
\* MUTANT of BulletLine: the text starts at the page margin
BulletLineAtMargin(pg, y, lineWords, kind) ==
  [page |-> pg, y |-> y, x |-> margin, toks |-> lineWords, size |-> 10,
   color |-> "black", align |-> "left", kind |-> kind]

\* lineWords.forEach(lw => page.drawText(lw.text, {x: cX, y: currentY, ...}))
\* with cX starting at bulletMargin   (App.tsx:233-237, 250-254)
BulletLine(pg, y, lineWords, kind) ==
  [page |-> pg, y |-> y, x |-> bulletMargin, toks |-> lineWords, size |-> 10,
   color |-> "black", align |-> "left", kind |-> kind]

RECURSIVE BulletFrom(_, _, _, _, _, _)
BulletFrom(toks, lineWords, currentW, pg, y, maxWidth) ==
  IF toks = << >>
    THEN [page |-> pg, y |-> y - 1700,
          placed |-> << BulletLine(pg, y, lineWords, "bulletText") >>]
    ELSE LET tok == Head(toks)
             brk == Overflows(currentW, tok, maxWidth)
             y1 == y - 1500
             newPage == brk /\ NeedsBreak(y1)
             pg1 == IF newPage THEN pg + 1 ELSE pg
             yy == IF ~brk THEN y ELSE IF newPage THEN PageHeight - margin ELSE y1
             rest == BulletFrom(Tail(toks),
                                IF brk THEN <<tok>> ELSE Append(lineWords, tok),
                                IF brk THEN tok.width ELSE currentW + tok.width,
                                pg1, yy, maxWidth)
         IN IF brk
              THEN [rest EXCEPT !.placed =
                      << BulletLine(pg, y, lineWords, "bulletText") >> \o @]
              ELSE rest

\* const maxWidth = width - bulletMargin - margin   (App.tsx:218)
BulletMaxWidth == PageWidth - bulletMargin - margin

drawBullet(bulletContent, pg, y) ==
  LET glyph == [page |-> pg, y |-> y, x |-> margin,
                toks |-> << [text |-> <<"o">>, isBold |-> FALSE, fontBold |-> FALSE,
                             width |-> widthOfTextAtSize(<<"o">>, FALSE, 12)] >>,
                size |-> 12, color |-> "black", align |-> "left", kind |-> "glyph"]
      r == BulletFrom(Tokens(bulletContent, FALSE, 10), << >>, 0, pg, y, BulletMaxWidth)
  IN [r EXCEPT !.placed = <<glyph>> \o @]

(***************************************************************************)
(* The line classifier (App.tsx:191-213, 256), on the trimmed line.        *)
(***************************************************************************)
BlockKind(line) ==
  IF line = << >> THEN "blank"
  ELSE IF StartsWith(line, <<"#", " ">>) THEN "title"
  ELSE IF StartsWith(line, <<"#", "#", " ">>) THEN "section"
  ELSE IF StartsWith(line, <<"#", "#", "#", " ">>) THEN "subsection"
  ELSE IF StartsWith(line, <<"-", " ">>) \/ StartsWith(line, <<"*", " ">>) THEN "bullet"
  ELSE "body"

\* const isContact = i > 0 && lines[i-1].startsWith('# ')   (App.tsx:257)
IsContact(idx, prevRaw) == idx > 0 /\ StartsWith(prevRaw, <<"#", " ">>)

\* MUTANT of SectionRule: the rule is drawn at the cursor, without the offset
SectionRuleAtCursor(pg, y) ==
  [page |-> pg, y |-> y, x1 |-> margin, x2 |-> PageWidth - margin]

\* page.drawLine({start: {x: margin, y: currentY + 14},
\*                end: {x: width - margin, y: currentY + 14}})   (App.tsx:204-209)
SectionRule(pg, y) ==
  [page |-> pg, y |-> y + 1400, x1 |-> margin, x2 |-> PageWidth - margin]

(***************************************************************************)
(* One iteration of the line loop (App.tsx:190-265) on the raw line        *)
(* lines[idx], with lines[idx-1] = prevRaw, from the cursor (pg, y).     *)
(* The result is the cursor after the line, the lines placed and the rules *)
(* drawn.                                                                  *)
(***************************************************************************)
LayoutLine(raw, idx, prevRaw, pg, y) ==
  LET line == Trim(raw)
      kind == BlockKind(line)
  IN CASE kind = "blank" ->
            [page |-> pg, y |-> y - 800, placed |-> << >>, rules |-> << >>]
       [] kind = "title" ->
            LET r == drawRichText(ReplaceFirst(line, <<"#", " ">>), pg, y,
                                  22, TRUE, "black", "center", "title")
            IN [page |-> r.page, y |-> r.y - 1000, placed |-> r.placed, rules |-> << >>]
       [] kind = "section" ->
            LET r == drawRichText(ReplaceFirst(line, <<"#", "#", " ">>), pg, y - 1200,
                                  12, TRUE, "navy", "left", "section")
            IN [page |-> r.page, y |-> r.y - 600, placed |-> r.placed,
                rules |-> << SectionRule(r.page, r.y) >>]
       [] kind = "subsection" ->
            LET r == drawRichText(ReplaceFirst(line, <<"#", "#", "#", " ">>), pg, y,
                                  11, TRUE, "black", "left", "subsection")
            IN [page |-> r.page, y |-> r.y, placed |-> r.placed, rules |-> << >>]
       [] kind = "bullet" ->
            LET r == drawBullet(Substring2(line), pg, y)
            IN [page |-> r.page, y |-> r.y, placed |-> r.placed, rules |-> << >>]
       [] OTHER ->
            LET c == IsContact(idx, prevRaw)
                r == drawRichText(line, pg, y, 10, FALSE,
                                  IF c THEN "muted" ELSE "black",
                                  IF c THEN "center" ELSE "left", "body")
            IN [page |-> r.page, y |-> r.y, placed |-> r.placed, rules |-> << >>]

(***************************************************************************)
(* Values of the App state.                                                *)
(***************************************************************************)
\* null as the value of result (records elsewhere), null as the value of error
\* (strings elsewhere), undefined as the value of a text (sequences elsewhere)
NULL == [isNull |-> TRUE]
NoError == "null"
UNDEF == <<"undefined">>

\* the state of App after construction (App.tsx:39-48)
UIInit ==
  /\ step = 1
  /\ loading = FALSE
  /\ downloading = FALSE
  /\ error = NoError
  /\ inputContent = << >>
  /\ targetTitle = << >>
  /\ result = NULL
  /\ uploads = {}
  /\ optimizing = FALSE
  /\ exporting = FALSE

(***************************************************************************)
(* The App as a state machine.  Every handler runs to its first await in   *)
(* one step; what follows an await runs in one step when the awaited call  *)
(* settles.  Between the two any other handler may run.                    *)
(***************************************************************************)
\* bound on the handleFileUpload calls in flight together
MaxUploads == 2

\* error messages (App.tsx:83, 89, 107, 275; geminiService.ts:71)
MsgFile == "Failed to process file."
MsgRequired == "Resume text and target job title are required."
MsgOptimize == "Failed to optimize resume."
MsgTypeError == "Cannot read properties of null"
MsgPdf == "PDF Export failed."

\* texts the user types into the editor and into the job title field
TypedTexts == { << >>, <<" ">>, <<"a">> }
TypedTitles == { << >>, <<"a">> }

\* the text an uploaded file decodes to, and the text the AI service writes
UploadedText == <<"-", " ", "a">>
OptimizedText == <<"#", " ", "a">>

\* !s.trim()
IsBlank(s) == Trim(s) = << >>

(***************************************************************************)
(* Uploaded files: the extension of the name and whether the bytes are     *)
(* what the extension says.  pdfjs and mammoth throw on bytes they cannot  *)
(* read; TextDecoder decodes any bytes.   (App.tsx:64-80)                  *)
(***************************************************************************)
FileExts == {"pdf", "docx", "txt", "md", "exe"}

Files == { f \in [ext : FileExts, valid : BOOLEAN] : f.ext \in {"pdf", "docx"} \/ f.valid }

DecodeThrows(f) == f.ext \in {"pdf", "docx"} /\ ~f.valid

(***************************************************************************)
(* The AI service and geminiService.optimizeResume (geminiService.ts:29-   *)
(* 72).  The call either fails or answers with a response text; the text   *)
(* is empty, not JSON, the JSON null, or a JSON object with or without     *)
(* optimizedContent and with or without the other required fields.         *)
(***************************************************************************)
JsonObjects == [optimizedContent : {OptimizedText, UNDEF}, complete : BOOLEAN]

ResponseTexts ==
  {[kind |-> "empty"], [kind |-> "malformed"], [kind |-> "jsonNull"]}
  \cup { [kind |-> "object", value |-> o] : o \in JsonObjects }

ServiceOutcomes ==
  {[kind |-> "callFailed"]} \cup { [kind |-> "text", text |-> t] : t \in ResponseTexts }

\* JSON.parse(response.text || "{}")   (geminiService.ts:67)
JsonParse(text) ==
  CASE text.kind = "empty" ->
         [throws |-> FALSE, value |-> [optimizedContent |-> UNDEF, complete |-> FALSE]]
    [] text.kind = "malformed" -> [throws |-> TRUE, value |-> NULL]
    [] text.kind = "jsonNull" -> [throws |-> FALSE, value |-> NULL]
    [] OTHER -> [throws |-> FALSE, value |-> text.value]

\* optimizeResume: any throw inside the try is rethrown as one Error
OptimizeResume(outcome) ==
  IF outcome.kind = "callFailed" \/ JsonParse(outcome.text).throws
    THEN [rejected |-> TRUE, value |-> NULL, message |-> MsgOptimize]
    ELSE [rejected |-> FALSE, value |-> JsonParse(outcome.text).value, message |-> ""]

\* a response the interface calls well formed: all four required fields
WellFormed(outcome) ==
  /\ outcome.kind = "text"
  /\ outcome.text.kind = "object"
  /\ outcome.text.value.optimizedContent # UNDEF
  /\ outcome.text.value.complete

\* components/Button is not among the sources: a Button given isLoading is taken
\* to ignore clicks while it is true
ButtonDisabled(isLoading) == isLoading

\* textarea onChange (App.tsx:334); the editor is rendered in edit mode only
EditContent(t) ==
  /\ step = 1
  /\ inputContent' = t
  /\ UNCHANGED <<step, loading, downloading, error, targetTitle, result,
                 uploads, optimizing, exporting>>
  /\ UNCHANGED layoutVars

\* job title input onChange (App.tsx:348)
EditTitle(t) ==
  /\ step = 1
  /\ targetTitle' = t
  /\ UNCHANGED <<step, loading, downloading, error, inputContent, result,
                 uploads, optimizing, exporting>>
  /\ UNCHANGED layoutVars

\* handleFileUpload up to its first await (App.tsx:59-65)
UploadStart(f) ==
  /\ step = 1
  /\ f \notin uploads
  /\ Cardinality(uploads) < MaxUploads
  /\ error' = NoError
  /\ uploads' = uploads \cup {f}
  /\ UNCHANGED <<step, loading, downloading, inputContent, targetTitle, result,
                 optimizing, exporting>>
  /\ UNCHANGED layoutVars

\* handleFileUpload after the decoder resolved (App.tsx:66-81)
UploadDone(f) ==
  /\ f \in uploads
  /\ ~DecodeThrows(f)
  /\ inputContent' = UploadedText
  /\ uploads' = uploads \ {f}
  /\ UNCHANGED <<step, loading, downloading, error, targetTitle, result,
                 optimizing, exporting>>
  /\ UNCHANGED layoutVars

\* handleFileUpload after the decoder threw (App.tsx:82-84)
UploadFail(f) ==
  /\ f \in uploads
  /\ DecodeThrows(f)
  /\ error' = MsgFile
  /\ uploads' = uploads \ {f}
  /\ UNCHANGED <<step, loading, downloading, inputContent, targetTitle, result,
                 optimizing, exporting>>
  /\ UNCHANGED layoutVars

\* MUTANT of OptimizeInvalid: loading is raised before the fields are tested
OptimizeInvalidLoading ==
  /\ step = 1
  /\ ~ButtonDisabled(loading)
  /\ inputContent # UNDEF
  /\ IsBlank(inputContent) \/ IsBlank(targetTitle)
  /\ error' = MsgRequired
  /\ loading' = TRUE
  /\ UNCHANGED <<step, downloading, inputContent, targetTitle, result,
                 uploads, optimizing, exporting>>
  /\ UNCHANGED layoutVars

\* handleOptimize with a required field blank (App.tsx:88-91)
OptimizeInvalid ==
  /\ step = 1
  /\ ~ButtonDisabled(loading)
  /\ inputContent # UNDEF
  /\ IsBlank(inputContent) \/ IsBlank(targetTitle)
  /\ error' = MsgRequired
  /\ UNCHANGED <<step, loading, downloading, inputContent, targetTitle, result,
                 uploads, optimizing, exporting>>
  /\ UNCHANGED layoutVars

\* handleOptimize up to its await (App.tsx:88-95)
OptimizeStart ==
  /\ step = 1
  /\ ~ButtonDisabled(loading)
  /\ inputContent # UNDEF
  /\ ~IsBlank(inputContent) /\ ~IsBlank(targetTitle)
  /\ loading' = TRUE
  /\ error' = NoError
  /\ optimizing' = TRUE
  /\ UNCHANGED <<step, downloading, inputContent, targetTitle, result,
                 uploads, exporting>>
  /\ UNCHANGED layoutVars

\* MUTANT of OptimizeResolved: the editor text is left as it is
OptimizeResolvedKeepsEditor(outcome) ==
  LET r == OptimizeResume(outcome)
  IN /\ optimizing
     /\ ~r.rejected
     /\ optimizing' = FALSE
     /\ loading' = FALSE
     /\ result' = r.value
     /\ IF r.value = NULL
          THEN /\ error' = MsgTypeError
               /\ UNCHANGED <<inputContent, step>>
          ELSE /\ UNCHANGED inputContent
               /\ step' = 2
               /\ UNCHANGED error
     /\ UNCHANGED <<downloading, targetTitle, uploads, exporting>>
     /\ UNCHANGED layoutVars

\* handleOptimize after optimizeResume resolved (App.tsx:102-105, 108-110).
\* A value of null is stored by setResult before reading its field throws.
OptimizeResolved(outcome) ==
  LET r == OptimizeResume(outcome)
  IN /\ optimizing
     /\ ~r.rejected
     /\ optimizing' = FALSE
     /\ loading' = FALSE
     /\ result' = r.value
     /\ IF r.value = NULL
          THEN /\ error' = MsgTypeError
               /\ UNCHANGED <<inputContent, step>>
          ELSE /\ inputContent' = r.value.optimizedContent
               /\ step' = 2
               /\ UNCHANGED error
     /\ UNCHANGED <<downloading, targetTitle, uploads, exporting>>
     /\ UNCHANGED layoutVars

\* MUTANT of OptimizeRejected: the catch stores what it has of the result
OptimizeRejectedStoring(outcome) ==
  LET r == OptimizeResume(outcome)
  IN /\ optimizing
     /\ r.rejected
     /\ optimizing' = FALSE
     /\ loading' = FALSE
     /\ error' = r.message
     /\ result' = [optimizedContent |-> UNDEF, complete |-> FALSE]
     /\ UNCHANGED <<step, downloading, inputContent, targetTitle, uploads, exporting>>
     /\ UNCHANGED layoutVars

\* MUTANT of OptimizeRejected: the catch runs without the finally
OptimizeRejectedKeepsLoading(outcome) ==
  LET r == OptimizeResume(outcome)
  IN /\ optimizing
     /\ r.rejected
     /\ optimizing' = FALSE
     /\ error' = r.message
     /\ UNCHANGED <<step, loading, downloading, inputContent, targetTitle, result,
                    uploads, exporting>>
     /\ UNCHANGED layoutVars

\* handleOptimize after optimizeResume rejected (App.tsx:106-110)
OptimizeRejected(outcome) ==
  LET r == OptimizeResume(outcome)
  IN /\ optimizing
     /\ r.rejected
     /\ optimizing' = FALSE
     /\ loading' = FALSE
     /\ error' = r.message
     /\ UNCHANGED <<step, downloading, inputContent, targetTitle, result,
                    uploads, exporting>>
     /\ UNCHANGED layoutVars

\* toggleView (App.tsx:113-122); its button is rendered when result is set
ToggleView ==
  /\ result # NULL
  /\ IF step = 2
       THEN /\ step' = 1
            /\ UNCHANGED result
       ELSE /\ result' = [result EXCEPT !.optimizedContent = inputContent]
            /\ step' = 2
  /\ UNCHANGED <<loading, downloading, error, inputContent, targetTitle,
                 uploads, optimizing, exporting>>
  /\ UNCHANGED layoutVars

\* result?.optimizedContent || inputContent: undefined and '' are falsy
OrElse(a, b) == IF a = UNDEF \/ a = << >> THEN b ELSE a

\* const contentToExport = step === 1 ? inputContent
\*                         : (result?.optimizedContent || inputContent)   (App.tsx:126)
ContentToExport ==
  IF step = 1 THEN inputContent
  ELSE OrElse(IF result = NULL THEN UNDEF ELSE result.optimizedContent, inputContent)

\* MUTANT of DownloadBlank: the flag is raised before the content is tested
DownloadBlankStarts ==
  /\ ~ButtonDisabled(downloading)
  /\ ContentToExport # UNDEF
  /\ IsBlank(ContentToExport)
  /\ downloading' = TRUE
  /\ exporting' = TRUE
  /\ UNCHANGED <<step, loading, error, inputContent, targetTitle, result,
                 uploads, optimizing>>
  /\ UNCHANGED layoutVars

\* handleDownloadPDF with nothing to export (App.tsx:126-127):
\* if (!contentToExport.trim()) return;
DownloadBlank ==
  /\ ~ButtonDisabled(downloading)
  /\ ContentToExport # UNDEF
  /\ IsBlank(ContentToExport)
  /\ UNCHANGED uiVars
  /\ UNCHANGED layoutVars

\* handleDownloadPDF up to its first await (App.tsx:126-131)
DownloadStart ==
  /\ ~ButtonDisabled(downloading)
  /\ ContentToExport # UNDEF
  /\ ~IsBlank(ContentToExport)
  /\ downloading' = TRUE
  /\ exporting' = TRUE
  /\ UNCHANGED <<step, loading, error, inputContent, targetTitle, result,
                 uploads, optimizing>>
  /\ UNCHANGED layoutVars

\* handleDownloadPDF after the document was saved (App.tsx:267-272, 276-278)
DownloadDone ==
  /\ exporting
  /\ downloading' = FALSE
  /\ exporting' = FALSE
  /\ UNCHANGED <<step, loading, error, inputContent, targetTitle, result,
                 uploads, optimizing>>
  /\ UNCHANGED layoutVars

\* handleDownloadPDF after a call of the PDF library threw (App.tsx:273-278)
DownloadFail ==
  /\ exporting
  /\ error' = MsgPdf
  /\ downloading' = FALSE
  /\ exporting' = FALSE
  /\ UNCHANGED <<step, loading, inputContent, targetTitle, result,
                 uploads, optimizing>>
  /\ UNCHANGED layoutVars

\* the error banner: {error && <div ...>{error}</div>} stands inside the
\* step === 1 branch of the render (App.tsx:308, 376-380); the preview branch
\* renders none.  NoError when no message is on screen.
VisibleError == IF step = 1 THEN error ELSE NoError

\* the App after construction; no layout pass has run
Init ==
  /\ UIInit
  /\ i = 0
  /\ lineCur = << >>
  /\ linePrev = << >>
  /\ page = 1
  /\ currentY = PageHeight - margin
  /\ placed = << >>
  /\ rules = << >>

Next ==
  \/ \E t \in TypedTexts : EditContent(t)
  \/ \E t \in TypedTitles : EditTitle(t)
  \/ \E f \in Files : UploadStart(f)
  \/ \E f \in Files : UploadDone(f)
  \/ \E f \in Files : UploadFail(f)
  \/ OptimizeInvalid
  \/ OptimizeStart
  \/ \E o \in ServiceOutcomes : OptimizeResolved(o)
  \/ \E o \in ServiceOutcomes : OptimizeRejected(o)
  \/ ToggleView
  \/ DownloadBlank
  \/ DownloadStart
  \/ DownloadDone
  \/ DownloadFail

Spec == Init /\ [][Next]_vars

(***************************************************************************)
(* The layout pass as a state machine: one step per iteration of the line  *)
(* loop.  The lines of contentToExport are drawn one at a time from a set  *)
(* of inputs; the pass looks back one line only (App.tsx:257), so the      *)
(* state keeps the last two lines and what the last line placed.           *)
(***************************************************************************)
\* bounds of the layout models
MaxLines == 10
FillLines == 5
MaxTextLen == 6

\* a title that wraps to three lines
FillerLine == <<"#", " ", "W", " ", "W">>

\* the lines a document of the pagination model is made of
InputLines ==
  { << >>,
    <<"#", " ", "W", " ", "W">>,
    <<" ", "#", " ", "a">>,
    <<"#", "#", " ", "W", " ", "W">>,
    <<"#", "#", "#", " ", "a">>,
    <<"-", " ", "a">>,
    <<"-", " ", "W", " ", "W">>,
    <<"a">>,
    <<"W", " ", "W", " ", "W">> }

Alphabet == {"W", " ", "*", "-", "#"}

\* every text over the alphabet up to the length bound
AllTexts == UNION { [1..n -> Alphabet] : n \in 0..MaxTextLen }

\* the state at App.tsx:189: one page allocated, the cursor at the top margin,
\* while an export is running
InitLayout ==
  /\ step = 1
  /\ loading = FALSE
  /\ downloading = TRUE
  /\ error = NoError
  /\ inputContent = <<"a">>
  /\ targetTitle = << >>
  /\ result = NULL
  /\ uploads = {}
  /\ optimizing = FALSE
  /\ exporting = TRUE
  /\ i = 0
  /\ lineCur = << >>
  /\ linePrev = << >>
  /\ page = 1
  /\ currentY = PageHeight - margin
  /\ placed = << >>
  /\ rules = << >>

\* the iteration of the line loop on lines[i] = raw
LineStep(raw) ==
  LET r == LayoutLine(raw, i, lineCur, page, currentY)
  IN /\ i' = i + 1
     /\ linePrev' = lineCur
     /\ lineCur' = raw
     /\ page' = r.page
     /\ currentY' = r.y
     /\ placed' = r.placed
     /\ rules' = r.rules
     /\ UNCHANGED uiVars

\* Documents of up to MaxLines lines: FillLines long titles, which fill most of
\* the first page, then lines drawn freely from InputLines.
NextLayout ==
  /\ i < MaxLines
  /\ \E raw \in (IF i < FillLines THEN {FillerLine} ELSE InputLines) : LineStep(raw)

SpecLayout == InitLayout /\ [][NextLayout]_vars

\* documents of one line, every text up to MaxTextLen
NextSpans == i = 0 /\ \E raw \in AllTexts : LineStep(raw)

SpecSpans == InitLayout /\ [][NextSpans]_vars

(***************************************************************************)
(* Helpers of the layout properties.                                       *)
(***************************************************************************)
LastKind == BlockKind(Trim(lineCur))
PrevKind == BlockKind(Trim(linePrev))

\* the wrap width of a placed line
MaxWidthOf(pl) == IF pl.kind = "bulletText" THEN BulletMaxWidth ELSE RichMaxWidth

\* the placed lines that are wrapped text (all but the bullet glyph)
TextLines == { k \in 1..Len(placed) : placed[k].kind # "glyph" }

\* the indices of the tokens of a line that are words (not blank)
WordToks(toks) == { k \in 1..Len(toks) : IsNonBlank(toks[k].text) }

PrefixWidth(toks, k) == LineWidth(SubSeq(toks, 1, k))

(***************************************************************************)
(* C1 (as claimed): no item is drawn with currentY below margin + 20:      *)
(* every line placed, the bullet glyph and the first line of a bullet      *)
(* included, has its baseline at or above margin + 20 on its page.         *)
(***************************************************************************)
C1_NoItemBelowThreshold ==
  \A k \in 1..Len(placed) : placed[k].y >= margin + 2000

(***************************************************************************)
(* C2 (as claimed): on every wrapped line the widths of all tokens, words  *)
(* and whitespace alike, sum to at most the wrap width, unless the line    *)
(* holds a single word and that word alone is wider than the wrap width    *)
(* (the whitespace around such a word is not held against the line).       *)
(***************************************************************************)
C2_LineWithinMaxWidth ==
  \A k \in TextLines :
    LET toks == placed[k].toks
        mw == MaxWidthOf(placed[k])
    IN \/ LineWidth(toks) <= mw
       \/ /\ Cardinality(WordToks(toks)) = 1
          /\ \A j \in WordToks(toks) : toks[j].width > mw

(***************************************************************************)
(* C2 (amended): on every wrapped line the widths of the tokens up to and  *)
(* including any non-whitespace token that is not the first token of the   *)
(* line sum to at most the wrap width; only whitespace appended after the  *)
(* last word, or a first token that is alone too wide, can exceed it.      *)
(***************************************************************************)
C2_WordsWithinMaxWidth ==
  \A k \in TextLines :
    LET toks == placed[k].toks
    IN \A j \in 2..Len(toks) :
         IsNonBlank(toks[j].text) => PrefixWidth(toks, j) <= MaxWidthOf(placed[k])

\* C2 witness: a wrapped block with a line of two words that fits up to its
\* last word and is pushed over the wrap width by the whitespace after it
C2_Witness ==
  /\ Len(placed) >= 2
  /\ \E k \in TextLines :
       LET toks == placed[k].toks
       IN /\ LineWidth(toks) > MaxWidthOf(placed[k])
          /\ \E j \in 2..Len(toks) :
               /\ IsNonBlank(toks[j].text)
               /\ IsNonBlank(toks[1].text)
               /\ PrefixWidth(toks, j) <= MaxWidthOf(placed[k])

(***************************************************************************)
(* C7 (as claimed): a body line that follows a line classified as a title  *)
(* is laid out as contact info (centered, muted), and a body line that     *)
(* follows any other line is laid out left-aligned in black.               *)
(***************************************************************************)
C7_ContactIffAfterTitle ==
  (i >= 2 /\ LastKind = "body") =>
    \A k \in 1..Len(placed) :
      IF PrevKind = "title"
        THEN placed[k].align = "center" /\ placed[k].color = "muted"
        ELSE placed[k].align = "left" /\ placed[k].color = "black"

(***************************************************************************)
(* Helpers of C8: the tokens a block emitted, and the tokens the span      *)
(* splitter is meant to emit: a delimited pair gives its inner text in     *)
(* bold, every other segment gives its own text, unchanged, in regular.    *)
(***************************************************************************)
RECURSIVE EmittedFrom(_, _)
EmittedFrom(pls, k) ==
  IF k > Len(pls) THEN << >>
  ELSE (IF pls[k].kind = "glyph" THEN << >>
        ELSE [j \in 1..Len(pls[k].toks) |->
                [text |-> pls[k].toks[j].text, isBold |-> pls[k].toks[j].isBold]])
       \o EmittedFrom(pls, k + 1)

Emitted == EmittedFrom(placed, 1)

RECURSIVE Tagged(_, _)
Tagged(words, isBold) ==
  IF words = << >> THEN << >>
  ELSE << [text |-> Head(words), isBold |-> isBold] >> \o Tagged(Tail(words), isBold)

RECURSIVE LiteralTokens(_)
LiteralTokens(segs) ==
  IF segs = << >> THEN << >>
  ELSE (IF Head(segs).matched
          THEN Tagged(SplitWords(Slice2(Head(segs).seg)), TRUE)
          ELSE Tagged(SplitWords(Head(segs).seg), FALSE))
       \o LiteralTokens(Tail(segs))

(***************************************************************************)
(* C8 (as claimed): stars that are not part of a matched pair are emitted  *)
(* unchanged as regular text: the tokens a body line emits are those of    *)
(* its segments, with only the matched pairs stripped of their delimiters  *)
(* and tagged bold.                                                        *)
(***************************************************************************)
C8_UnmatchedStarsAreLiteral ==
  (i >= 1 /\ LastKind = "body") =>
    Emitted = LiteralTokens(SplitSegments(Trim(lineCur)))

(***************************************************************************)
(* C9: a section header draws exactly one rule, on the page of the         *)
(* header's last wrapped line, from x = margin to x = width - margin,      *)
(* 8.8 pt below that line's baseline, page break or not.                   *)
(***************************************************************************)
C9_RuleUnderHeader ==
  (i >= 1 /\ LastKind = "section") =>
    /\ Len(rules) = 1
    /\ Len(placed) >= 1
    /\ rules[1].page = placed[Len(placed)].page
    /\ rules[1].page = page
    /\ rules[1].x1 = margin
    /\ rules[1].x2 = PageWidth - margin
    /\ rules[1].y = placed[Len(placed)].y - 880

\* C9 witness: a section header of two wrapped lines whose placement opened the
\* second page, with its rule drawn
C9_Witness ==
  /\ i >= 1
  /\ LastKind = "section"
  /\ Len(placed) = 2
  /\ placed[2].page = 2
  /\ \E k \in 1..2 : placed[k].y = PageHeight - margin
  /\ Len(rules) = 1

(***************************************************************************)
(* C10: of a bullet item only the glyph is placed at x = margin; every     *)
(* wrapped line of its text, the first one and the first one on a new page *)
(* included, starts at x = margin + 15.                                    *)
(***************************************************************************)
C10_BulletTextAtIndent ==
  (i >= 1 /\ LastKind = "bullet") =>
    /\ Len(placed) >= 2
    /\ placed[1].kind = "glyph"
    /\ placed[1].x = margin
    /\ \A k \in 2..Len(placed) :
         /\ placed[k].kind = "bulletText"
         /\ placed[k].x = margin + 1500

\* C10 witness: a bullet whose text continues on a new page
C10_Witness ==
  /\ i >= 1
  /\ LastKind = "bullet"
  /\ \E k \in 3..Len(placed) : placed[k].page = placed[k - 1].page + 1

(***************************************************************************)
(* Helpers of the App properties.                                          *)
(***************************************************************************)
\* handleOptimize resumes after its await with this outcome of the service
OptimizeSettled(outcome) == OptimizeResolved(outcome) \/ OptimizeRejected(outcome)

\* the preview and the editor show the same text
Synced == result # NULL /\ result.optimizedContent = inputContent

\* the asynchronous operations started and not yet completed
InFlight ==
  Cardinality(uploads) + (IF optimizing THEN 1 ELSE 0) + (IF exporting THEN 1 ELSE 0)

(***************************************************************************)
(* C3 (as claimed): when the service answers with a response that is not   *)
(* well formed (malformed JSON, a missing required field, an empty text),  *)
(* handleOptimize ends in the failure path: an error is set and result,    *)
(* inputContent and step are not updated from the response.                *)
(***************************************************************************)
C3_MalformedResponseFails ==
  [][\A o \in ServiceOutcomes :
       (OptimizeSettled(o) /\ ~WellFormed(o)) =>
         /\ error' # NoError
         /\ result' = result
         /\ inputContent' = inputContent
         /\ step' = step]_vars

(***************************************************************************)
(* C4: when optimizeResume rejects, handleOptimize leaves inputContent,    *)
(* result and step as they were; it sets error to a message and loading to *)
(* false and changes nothing else.                                         *)
(***************************************************************************)
C4_RejectionKeepsState ==
  [][\A o \in ServiceOutcomes :
       OptimizeRejected(o) =>
         /\ inputContent' = inputContent
         /\ result' = result
         /\ step' = step
         /\ error' # NoError
         /\ loading' = FALSE
         /\ UNCHANGED <<downloading, targetTitle, uploads, exporting>>]_vars

\* C4 witness: an optimization has been rejected: the message of the service is
\* shown, the editor text is still the one submitted and there is no result
C4_Witness ==
  /\ error = MsgOptimize
  /\ ~loading
  /\ ~optimizing
  /\ step = 1
  /\ result = NULL
  /\ inputContent = <<"a">>

(***************************************************************************)
(* C5 (as claimed): the views stay synchronized across every transition:   *)
(* on entering preview mode the previewed text equals the editor text; on  *)
(* entering edit mode the editor text equals the text that was previewed;  *)
(* and no completion that arrives in preview mode (a file upload started   *)
(* in edit mode) breaks the equality while the preview is shown.           *)
(***************************************************************************)
C5_ViewsSynchronized ==
  [][/\ (step = 1 /\ step' = 2) => Synced'
     /\ (step = 2 /\ step' = 1) =>
          (result # NULL /\ inputContent' = result.optimizedContent)
     /\ (step = 2 /\ step' = 2 /\ Synced /\ inputContent # UNDEF /\ result' # NULL)
          => Synced']_vars

(***************************************************************************)
(* C6 (as claimed): at most one asynchronous operation among file          *)
(* decoding, optimization and export is in flight at any time.             *)
(***************************************************************************)
C6_AtMostOneInFlight == InFlight <= 1

(***************************************************************************)
(* Documents of one body paragraph: n bold words with no space between the *)
(* spans, each word too wide to share a line, so that the paragraph wraps  *)
(* to n lines (n + 1 when the word is wider than the line: the wrap loop   *)
(* then leaves the first line empty).                                      *)
(***************************************************************************)
\* bound on the words of the paragraph
MaxParaLines == 52

ParaWords == { <<"*", "*", "W", "*", "*">>,
               <<"*", "*", "W", "-", "*", "*">>,
               <<"*", "*", "W", "W", "*", "*">> }

RECURSIVE Paragraph(_, _)
Paragraph(n, w) == IF n <= 1 THEN w ELSE w \o Paragraph(n - 1, w)

NextParagraph ==
  /\ i = 0
  /\ \E n \in 1..MaxParaLines, w \in ParaWords : LineStep(Paragraph(n, w))

SpecParagraph == InitLayout /\ [][NextParagraph]_vars

\* the placed lines that lie on page p, in order
OnPage(p) == SelectSeq(placed, LAMBDA pl : pl.page = p)

(***************************************************************************)
(* C11 (as claimed): a body paragraph that wraps to 40 lines at size 10    *)
(* allocates at least two pages, and the first line placed on the second   *)
(* page has y = height - margin.                                           *)
(***************************************************************************)
C11_FortyLinesBreak ==
  (i = 1 /\ LastKind = "body" /\ Len(placed) = 40) =>
    /\ page >= 2
    /\ OnPage(2) # << >>
    /\ OnPage(2)[1].y = PageHeight - margin

(***************************************************************************)
(* C11 (amended): a body paragraph at size 10 stays on the first page up   *)
(* to 49 wrapped lines; one that wraps to 50 lines or more allocates at    *)
(* least two pages, and the first line placed on the second page has       *)
(* y = height - margin.                                                    *)
(***************************************************************************)
C11_FiftyLinesBreak ==
  (i = 1 /\ LastKind = "body") =>
    /\ Len(placed) <= 49 => page = 1
    /\ Len(placed) >= 50 =>
         /\ page >= 2
         /\ OnPage(2) # << >>
         /\ OnPage(2)[1].y = PageHeight - margin
         /\ Len(OnPage(1)) = 49

\* C11 witness: a paragraph of 50 lines, whose last line opened page two
C11_Witness ==
  /\ i = 1
  /\ LastKind = "body"
  /\ Len(placed) = 50
  /\ page = 2
  /\ placed[50].page = 2
  /\ placed[50].y = PageHeight - margin

(***************************************************************************)
(* The four-line resume of the layout scenario, and the documents of up to *)
(* MaxScenarioLines lines made of its lines in any order.                  *)
(***************************************************************************)
\* # Jane Doe
TitleLine ==
  << "#", " ", "J", "a", "n", "e", " ", "D", "o", "e" >>

\* jane@x.com | 555-1234
ContactLine ==
  << "j", "a", "n", "e", "@", "x", ".", "c", "o", "m",
     " ", "|", " ", "5", "5", "5", "-", "1", "2", "3",
     "4" >>

\* ## Experience
SectionLine ==
  << "#", "#", " ", "E", "x", "p", "e", "r", "i", "e",
     "n", "c", "e" >>

\* - Built **critical** systems
BulletTextLine ==
  << "-", " ", "B", "u", "i", "l", "t", " ", "*", "*",
     "c", "r", "i", "t", "i", "c", "a", "l", "*", "*",
     " ", "s", "y", "s", "t", "e", "m", "s" >>

ScenarioLines == { TitleLine, ContactLine, SectionLine, BulletTextLine }

MaxScenarioLines == 4

NextScenario ==
  /\ i < MaxScenarioLines
  /\ \E raw \in ScenarioLines : LineStep(raw)

SpecScenario == InitLayout /\ [][NextScenario]_vars

\* the text drawn by a sequence of tokens
RECURSIVE TextOf(_)
TextOf(toks) == IF toks = << >> THEN << >> ELSE Head(toks).text \o TextOf(Tail(toks))

\* the spans of a line: its maximal runs of tokens with the same bold tag,
\* each with the text it draws
RECURSIVE SpansOf(_)
SpansOf(toks) ==
  IF toks = << >> THEN << >>
  ELSE LET rest == SpansOf(Tail(toks))
           t == Head(toks)
       IN IF rest # << >> /\ rest[1].isBold = t.isBold
            THEN << [text |-> t.text \o rest[1].text, isBold |-> t.isBold] >>
                 \o Tail(rest)
            ELSE << [text |-> t.text, isBold |-> t.isBold] >> \o rest

\* a placed line is centered between the page edges (to the rounding of 1/100 pt)
Centered(pl) == PageWidth - (2 * pl.x + LineWidth(pl.toks)) \in {0, 1}

AllFontBold(pl) == \A k \in 1..Len(pl.toks) : pl.toks[k].fontBold

(***************************************************************************)
(* C12: the lines of the scenario, laid out in its order, give on page 1:  *)
(* the title 'Jane Doe' centered at size 22 in the bold font; after it the *)
(* contact line centered and muted; after that the section header          *)
(* 'Experience' in bold followed by a rule; after that one bullet whose    *)
(* glyph is at x = margin and whose text is the spans 'Built ' regular,    *)
(* 'critical' bold, ' systems' regular, in that order on a single line.    *)
(***************************************************************************)
C12_JaneDoeLayout ==
  /\ (i = 1 /\ lineCur = TitleLine) =>
        /\ page = 1 /\ Len(placed) = 1 /\ rules = << >>
        /\ placed[1].page = 1
        /\ TextOf(placed[1].toks) = SubSeq(TitleLine, 3, Len(TitleLine))
        /\ placed[1].size = 22
        /\ AllFontBold(placed[1])
        /\ Centered(placed[1])
  /\ (i = 2 /\ linePrev = TitleLine /\ lineCur = ContactLine) =>
        /\ page = 1 /\ Len(placed) = 1 /\ rules = << >>
        /\ placed[1].page = 1
        /\ TextOf(placed[1].toks) = ContactLine
        /\ placed[1].color = "muted"
        /\ Centered(placed[1])
  /\ (i = 3 /\ linePrev = ContactLine /\ lineCur = SectionLine) =>
        /\ page = 1 /\ Len(placed) = 1
        /\ placed[1].page = 1
        /\ TextOf(placed[1].toks) = SubSeq(SectionLine, 4, Len(SectionLine))
        /\ AllFontBold(placed[1])
        /\ Len(rules) = 1
        /\ rules[1].page = 1
        /\ rules[1].x1 = margin /\ rules[1].x2 = PageWidth - margin
        /\ rules[1].y < placed[1].y
  /\ (i = 4 /\ linePrev = SectionLine /\ lineCur = BulletTextLine) =>
        /\ page = 1 /\ Len(placed) = 2 /\ rules = << >>
        /\ placed[1].kind = "glyph" /\ placed[1].x = margin /\ placed[1].page = 1
        /\ placed[2].page = 1 /\ placed[2].y = placed[1].y
        /\ SpansOf(placed[2].toks) =
             << [text |-> <<"B", "u", "i", "l", "t", " ">>, isBold |-> FALSE],
                [text |-> <<"c", "r", "i", "t", "i", "c", "a", "l">>, isBold |-> TRUE],
                [text |-> <<" ", "s", "y", "s", "t", "e", "m", "s">>, isBold |-> FALSE] >>

\* C12 witness: the scenario laid out to its last line; its four blocks take
\* 51.8 + 19 + 40.8 + 17 pt, which leaves the cursor at 791.89 - 128.6
C12_Witness ==
  /\ i = 4
  /\ linePrev = SectionLine
  /\ lineCur = BulletTextLine
  /\ currentY = PageHeight - margin - 12860
  /\ Len(placed) = 2
  /\ Len(placed[2].toks) = 7

(***************************************************************************)
(* C14: when the content selected for export is empty or only whitespace,  *)
(* handleDownloadPDF returns before it creates a document or a page: the   *)
(* call changes neither downloading nor error, no export is in flight      *)
(* after it and nothing is laid out; and no step taken while that content  *)
(* is blank raises downloading or starts an export.                        *)
(***************************************************************************)
BlankExport == ContentToExport # UNDEF /\ IsBlank(ContentToExport)

C14_BlankExportReturns ==
  [][ /\ DownloadBlank =>
           /\ downloading' = downloading
           /\ error' = error
           /\ exporting' = exporting
           /\ UNCHANGED layoutVars
      /\ BlankExport =>
           /\ ~(~downloading /\ downloading')
           /\ ~(~exporting /\ exporting') ]_vars

\* C14 witness: the preview shows a result whose content is blank and the
\* Export button is live, so that a click takes the early return; the state
\* after the click is this same state
C14_Witness ==
  /\ step = 2
  /\ result # NULL
  /\ BlankExport
  /\ ENABLED DownloadBlank
  /\ ~downloading /\ ~exporting
  /\ error = NoError

(***************************************************************************)
(* C15 (as claimed): whenever a PDF export fails, in edit or in preview    *)
(* mode, the error message of the export is visible in the resulting UI    *)
(* state, and step, inputContent and result are unchanged by the failure.  *)
(***************************************************************************)
C15_FailedExportShowsError ==
  [][ DownloadFail =>
        /\ VisibleError' = MsgPdf
        /\ UNCHANGED <<step, inputContent, result>> ]_vars

(***************************************************************************)
(* C16 (as claimed): handleFileUpload accepts only names that end in .pdf, *)
(* .docx, .txt or .md; a file of any other extension is rejected: when its *)
(* upload settles, error is set and inputContent is unchanged.             *)
(***************************************************************************)
AcceptedExts == {"pdf", "docx", "txt", "md"}

C16_OtherExtensionRejected ==
  [][ \A f \in Files :
        (f.ext \notin AcceptedExts /\ (UploadDone(f) \/ UploadFail(f))) =>
          /\ error' # NoError
          /\ inputContent' = inputContent ]_vars

(***************************************************************************)
(* C17: handleOptimize with the editor text or the target title blank sets *)
(* the validation error and returns: loading, step, result and             *)
(* inputContent keep their values and no call of the service is started;   *)
(* no step taken while a required field is blank starts a call of the      *)
(* service.  An invocation with both fields non-blank, which a pending     *)
(* validation error does not prevent, clears the error and proceeds:       *)
(* loading is raised and the call is started.                              *)
(***************************************************************************)
FieldBlank == inputContent # UNDEF /\ (IsBlank(inputContent) \/ IsBlank(targetTitle))

C17_ValidationGuard ==
  [][ /\ OptimizeInvalid =>
           /\ error' = MsgRequired
           /\ UNCHANGED <<loading, step, result, inputContent, optimizing>>
      /\ FieldBlank => ~(~optimizing /\ optimizing')
      /\ (error = MsgRequired /\ step = 1 /\ ~loading /\ inputContent # UNDEF
            /\ ~FieldBlank) => ENABLED OptimizeStart
      /\ OptimizeStart =>
           /\ error' = NoError
           /\ loading' /\ optimizing'
           /\ UNCHANGED <<step, result, inputContent>> ]_vars

\* C17 witness: the validation error is on screen after an invocation with a
\* blank title, and no call of the service is running
C17_Witness ==
  /\ error = MsgRequired
  /\ step = 1
  /\ ~IsBlank(inputContent) /\ IsBlank(targetTitle)
  /\ ~loading /\ ~optimizing
  /\ result = NULL

(***************************************************************************)
(* C18: in both wrap loops a line is opened only by a token that is not    *)
(* blank: every wrapped line of a block after its first begins with a      *)
(* token that has a character other than whitespace (a blank or empty     *)
(* token is appended to the current line whatever the width).              *)
(***************************************************************************)
FirstTextLine == CHOOSE k \in TextLines : \A j \in TextLines : k <= j

C18_LinesStartWithWord ==
  \A k \in TextLines :
    k # FirstTextLine =>
      /\ placed[k].toks # << >>
      /\ IsNonBlank(placed[k].toks[1].text)

\* C18 witness: a block of two lines whose first line ends with a blank token
\* that carries it past its wrap width, and whose second line begins with a word
C18_Witness ==
  \E k \in TextLines :
    /\ k + 1 \in TextLines
    /\ placed[k].toks # << >>
    /\ ~IsNonBlank(placed[k].toks[Len(placed[k].toks)].text)
    /\ LineWidth(placed[k].toks) > MaxWidthOf(placed[k])
    /\ IsNonBlank(placed[k + 1].toks[1].text)

(***************************************************************************)
(* C19 (as claimed): for the text of every block, the texts of the emitted *)
(* tokens, concatenated in order across the wrapped lines, are the text    *)
(* with the delimiters of its matched pairs removed, no character dropped, *)
(* doubled or moved, and the characters from inside a matched pair are     *)
(* those tagged bold.                                                      *)
(***************************************************************************)
\* the length of the marker that the line of a block begins with
MarkerLen(kind) ==
  CASE kind = "title" -> 2
    [] kind = "section" -> 3
    [] kind = "subsection" -> 4
    [] kind = "bullet" -> 2
    [] OTHER -> 0

\* the text of the block of the last line laid out
BlockText ==
  SubSeq(Trim(lineCur), MarkerLen(LastKind) + 1, Len(Trim(lineCur)))

\* the characters of a text, each with a bold tag
CharsOf(text, isBold) == [k \in 1..Len(text) |-> [c |-> text[k], isBold |-> isBold]]

RECURSIVE EmittedChars(_)
EmittedChars(toks) ==
  IF toks = << >> THEN << >>
  ELSE CharsOf(Head(toks).text, Head(toks).isBold) \o EmittedChars(Tail(toks))

RECURSIVE ExpectedChars(_)
ExpectedChars(segs) ==
  IF segs = << >> THEN << >>
  ELSE (IF Head(segs).matched
          THEN CharsOf(Slice2(Head(segs).seg), TRUE)
          ELSE CharsOf(Head(segs).seg, FALSE))
       \o ExpectedChars(Tail(segs))

C19_TokensPreserveText ==
  (i >= 1 /\ LastKind # "blank") =>
    EmittedChars(Emitted) = ExpectedChars(SplitSegments(BlockText))

(***************************************************************************)
(* C20: a line, trimmed, gets one block kind by the first match of: empty  *)
(* (blank: the cursor moves down 8 and nothing is drawn), '# ' (title),    *)
(* '## ' (section), '### ' (subsection), '- ' or '* ' (bullet), otherwise  *)
(* body; the block laid out is of that kind, and its text is the trimmed   *)
(* line less exactly its leading marker: the tokens drawn are the tokens   *)
(* of that text.                                                           *)
(***************************************************************************)
HasPrefix(line, p) == Len(line) >= Len(p) /\ \A k \in 1..Len(p) : line[k] = p[k]

ClaimedKind(line) ==
  CASE line = << >> -> "blank"
    [] HasPrefix(line, <<"#", " ">>) -> "title"
    [] HasPrefix(line, <<"#", "#", " ">>) -> "section"
    [] HasPrefix(line, <<"#", "#", "#", " ">>) -> "subsection"
    [] HasPrefix(line, <<"-", " ">>) \/ HasPrefix(line, <<"*", " ">>) -> "bullet"
    [] OTHER -> "body"

\* the trimmed line less the leading marker of its kind
ClaimedText(line) == SubSeq(line, MarkerLen(ClaimedKind(line)) + 1, Len(line))

\* the kinds of the items that a block of a kind places
ItemKinds(kind) == IF kind = "bullet" THEN {"glyph", "bulletText"} ELSE {kind}

TextsOf(toks) == [k \in 1..Len(toks) |-> toks[k].text]

C20_OneKindPerLine ==
  i = 1 =>
    LET line == Trim(lineCur)
        kind == ClaimedKind(line)
    IN IF kind = "blank"
         THEN /\ placed = << >> /\ rules = << >>
              /\ page = 1
              /\ currentY = PageHeight - margin - 800
         ELSE /\ placed # << >>
              /\ \A k \in 1..Len(placed) : placed[k].kind \in ItemKinds(kind)
              /\ (kind = "bullet") = (placed[1].kind = "glyph")
              /\ (rules # << >>) = (kind = "section")
              /\ TextsOf(Emitted) = TextsOf(Tokens(ClaimedText(line), FALSE, 10))

\* C20 witness: a title whose text holds the title marker a second time
C20_Witness ==
  /\ i = 1
  /\ ClaimedKind(Trim(lineCur)) = "title"
  /\ IndexOfFrom(ClaimedText(Trim(lineCur)), <<"#", " ">>, 1) > 0
  /\ placed # << >>
  /\ placed[1].kind = "title"

(***************************************************************************)
(* C21: in every turn of the line loop the cursor currentY does not        *)
(* increase unless a page is allocated in that turn; the first item drawn  *)
(* on a page allocated in the turn is at exactly height - margin; down a   *)
(* page the items of the turn do not rise; and every item and rule is      *)
(* drawn on the page most recently allocated when it is drawn: the pages   *)
(* of the items never go back, none is below the page the turn began on,   *)
(* and the last item and the rule are on the page the turn ends on.        *)
(***************************************************************************)
C21_CursorAndPageMonotone ==
  [][ i' = i + 1 =>
        /\ page' >= page
        /\ currentY' > currentY => page' > page
        /\ \A k \in 1..Len(placed') :
             /\ placed'[k].page \in page..page'
             /\ placed'[k].page = page => placed'[k].y <= currentY
             /\ placed'[k].page = page' => currentY' <= placed'[k].y
             /\ k > 1 =>
                  /\ placed'[k].page >= placed'[k - 1].page
                  /\ placed'[k].page = placed'[k - 1].page =>
                       placed'[k].y <= placed'[k - 1].y
             /\ (placed'[k].page > page
                   /\ (k = 1 \/ placed'[k - 1].page < placed'[k].page)) =>
                  placed'[k].y = PageHeight - margin
        /\ placed' # << >> => placed'[Len(placed')].page = page'
        /\ placed' = << >> => page' = page
        /\ \A k \in 1..Len(rules') : rules'[k].page = page' ]_vars

\* C21 witness: a block that straddles a page break: an item on page 1, the
\* next on page 2 at the top, and the cursor back up on page 2
C21_Witness ==
  /\ page = 2
  /\ \E k \in 1..(Len(placed) - 1) :
       /\ placed[k].page = 1
       /\ placed[k + 1].page = 2
       /\ placed[k + 1].y = PageHeight - margin
       /\ currentY > placed[k].y

(***************************************************************************)
(* C22 (as claimed): in every reachable state of the App, step = 2         *)
(* (preview mode) implies that result is not null.                         *)
(***************************************************************************)
C22_PreviewHasResult == step = 2 => result # NULL

(***************************************************************************)
(* The App with the awaited calls settling: a promise of the service or of *)
(* the PDF library that is pending is eventually resolved or rejected, and *)
(* the continuation of the handler then runs.                              *)
(***************************************************************************)
OptimizeSettles ==
  \E o \in ServiceOutcomes : OptimizeResolved(o) \/ OptimizeRejected(o)

DownloadSettles == DownloadDone \/ DownloadFail

SpecLive ==
  /\ Init
  /\ [][Next]_vars
  /\ WF_vars(OptimizeSettles)
  /\ WF_vars(DownloadSettles)

(***************************************************************************)
(* C23: every started optimization leads to loading = false and every      *)
(* started export to downloading = false when the awaited call settles,    *)
(* whether it resolves or rejects; and the flag is true in every state     *)
(* from the start to that completion.                                      *)
(***************************************************************************)
C23_FlagsFollowCalls ==
  /\ [](optimizing => loading)
  /\ [](exporting => downloading)
  /\ [][ /\ (~optimizing /\ optimizing') => loading'
         /\ (optimizing /\ ~optimizing') => ~loading'
         /\ (~exporting /\ exporting') => downloading'
         /\ (exporting /\ ~exporting') => ~downloading' ]_vars
  /\ (optimizing ~> ~loading)
  /\ (exporting ~> ~downloading)

\* C23 witness: an optimization has been rejected and an export is in flight:
\* loading is down again, with the error of the rejection, downloading is up
C23_Witness ==
  /\ error = MsgOptimize
  /\ ~optimizing /\ ~loading
  /\ exporting /\ downloading

(***************************************************************************)
(* C24: when an optimization succeeds (the service resolves with a value   *)
(* and the try block of handleOptimize runs through), result, inputContent *)
(* and step are set together to the value, its optimizedContent and 2,     *)
(* whatever inputContent held: what an edit or an upload put there while   *)
(* the call was in flight is gone from the editor and from the preview.    *)
(***************************************************************************)
\* the text that the preview renders: marked.parse(result.optimizedContent),
\* in the effect that runs when result is set and step is 2 (App.tsx:52-57)
PreviewText == IF result = NULL THEN UNDEF ELSE result.optimizedContent

C24_SuccessOverwritesEditor ==
  [][ \A o \in ServiceOutcomes :
        (OptimizeResolved(o) /\ OptimizeResume(o).value # NULL) =>
          /\ result' = OptimizeResume(o).value
          /\ inputContent' = OptimizeResume(o).value.optimizedContent
          /\ step' = 2
          /\ PreviewText' = inputContent' ]_vars

\* C24 witness: a call is in flight and the editor holds a blank text, which
\* handleOptimize does not submit: the text was put there after the call
\* started; a well-formed response is about to replace it
C24_Witness ==
  /\ optimizing
  /\ step = 1
  /\ IsBlank(inputContent)
  /\ ENABLED (\E o \in ServiceOutcomes : WellFormed(o) /\ OptimizeResolved(o))

====
